---- MODULE Spec2Model ----
(***************************************************************************)
(* A model of the DBSCAN clustering pipeline: DBSCAN::cluster builds a     *)
(* uniform grid over the points, computes every point's box neighbourhood, *)
(* and classifies the points with a concurrent union-find over the         *)
(* core-to-neighbour edges.                                                *)
(*                                                                         *)
(* Coordinates and eps are binary32 floats, held as the integer number of  *)
(* units of 2^-27 they are worth.  Subtraction and division round to 24    *)
(* significant bits, to nearest and ties to even, as the float operations  *)
(* of the code do; on small multiples of the unit they are exact.  Point   *)
(* indices are 0-based as in the code, so that labels (which are root      *)
(* indices) and nClusters = max_label + 1 keep the code's values.          *)
(***************************************************************************)
EXTENDS Integers, Sequences, FiniteSets, TLC

\* ---------------------------------------------------------------- constants
NDim == 2

DB_NOISE == -1

DB_UNVISITED == -2

DB_BORDER == -4

DB_CORE == -8

\* getCell's nullptr
NullCell == -1

\* ------------------------------------------------------------------- bounds
\* at most MaxN points in an input of the general specification
MaxN == 3

\* coordinates of dimension 0 are drawn from 0..MaxX, of dimension 1 from 0..MaxY
MaxX == 2

MaxY == 1

\* minPts is drawn from 0..MaxMinPts (0 is an invalid parameter)
MaxMinPts == 2

\* the classifier's parallel_for runs on 1..MaxWorkers threads
MaxWorkers == 2

VARIABLES
  pts,        \* const float* points : [0..n-1 -> <<x, y>>]
  n,          \* size_t n
  eps,        \* mParams.eps
  minPts,     \* mParams.minPts
  nWorkers,   \* threads available to the parallel_for calls of classify
  grain,      \* length of the blocked_range chunks the partitioner hands out
  pc,         \* position of DBSCAN::cluster
  mMinBounds, \* Grid::mMinBounds
  mMaxBounds, \* Grid::mMaxBounds
  mGridDims,  \* Grid::mGridDims
  mCells,     \* Grid::mCells : [0..total-1 -> Seq(index)]
  neighbors,  \* NeighborList::neighbors : [0..n-1 -> Seq(index)]
  parent,     \* std::vector<std::atomic<size_t>> parent
  isCore,     \* std::vector<bool> isCore (one machine word of bits)
  labels,     \* result.labels
  nClusters,  \* result.nClusters
  nNoise,     \* result.nNoise
  todo,       \* iterations of the current parallel_for not yet started
  run         \* iterations in progress : [subset of 0..n-1 -> locals]

vars == <<pts, n, eps, minPts, nWorkers, grain, pc, mMinBounds, mMaxBounds, mGridDims,
          mCells, neighbors, parent, isCore, labels, nClusters, nNoise, todo, run>>

inputVars == <<pts, n, eps, minPts, nWorkers, grain>>

gridVars == <<mMinBounds, mMaxBounds, mGridDims, mCells>>

resultVars == <<nClusters, nNoise>>

\* ------------------------------------------------------------------ helpers
Abs(a) == IF a < 0 THEN -a ELSE a

MinOf(S) == CHOOSE m \in S : \A s \in S : m <= s

MaxOf(S) == CHOOSE m \in S : \A s \in S : m >= s

Idx == 0 .. (n - 1)

\* the first index of every chunk of blocked_range(0, n)
ChunkHeads == {i \in Idx : i % grain = 0}

\* ------------------------------------------------------ float arithmetic
\* significant bits of a binary32 value
Mantissa == 24

RECURSIVE bitLen(_)
bitLen(k) == IF k = 0 THEN 0 ELSE 1 + bitLen(k \div 2)

\* the bits of x >= 0 that do not fit into the significand
RECURSIVE excess(_)
excess(x) == IF x < 2 ^ Mantissa THEN 0 ELSE 1 + excess(x \div 2)

\* the float nearest to x >= 0, ties to the even significand
roundF(x) ==
  LET m == 2 ^ excess(x)
      q == x \div m
      r == x % m
      up == 2 * r > m \/ (2 * r = m /\ q % 2 = 1)
  IN (IF up THEN q + 1 ELSE q) * m

\* the float a - b
fsub(a, b) == IF a >= b THEN roundF(a - b) ELSE -roundF(b - a)

\* the fraction r / e < 1 has its first t bits set and rounds up after them
RECURSIVE carryUp(_, _, _)
carryUp(r, e, t) ==
  IF t = 0 THEN 2 * r >= e
  ELSE 2 * r >= e /\ carryUp(2 * r - e, e, t - 1)

\* the fraction r / e < 1 has its first t bits clear and rounds down after them
RECURSIVE roundsDown(_, _, _)
roundsDown(r, e, t) ==
  IF t = 0 THEN 2 * r <= e
  ELSE 2 * r < e /\ roundsDown(2 * r, e, t - 1)

\* static_cast<int32_t>(a / e) for floats a >= 0, e > 0: the integer part of
\* the rounded quotient, which is one above the exact one when the quotient
\* rounds up to the next integer
fdivTrunc(a, e) ==
  LET k == a \div e
      r == a % e
  IN IF carryUp(r, e, Mantissa - bitLen(k)) THEN k + 1 ELSE k

\* std::ceil(a / e) for floats a >= 0, e > 0: the rounded quotient is the
\* integer k when the division is exact or its fraction rounds away
fdivCeil(a, e) ==
  LET k == a \div e
      r == a % e
  IN IF r = 0 THEN k
     ELSE IF k = 0 THEN 1
     ELSE IF roundsDown(r, e, Mantissa - bitLen(k)) THEN k ELSE k + 1

\* std::clamp(v, lo, hi)
Clamp(v, lo, hi) == IF v < lo THEN lo ELSE IF v > hi THEN hi ELSE v

RECURSIVE Concat(_)
Concat(ss) == IF ss = <<>> THEN <<>> ELSE Head(ss) \o Concat(Tail(ss))

\* ----------------------------------------------------- DBSCANDistance (C1)
\* areNeighbors with the comparison diff >= mEps[d] in place of diff > mEps[d]
areNeighborsStrict(e, p1, p2) ==
  \A d \in 1 .. NDim : ~(Abs(fsub(p1[d], p2[d])) >= e[d])

\* areNeighbors with mEps = e: false at the first dimension whose difference
\* exceeds its threshold
areNeighbors(e, p1, p2) ==
  \A d \in 1 .. NDim : ~(Abs(fsub(p1[d], p2[d])) > e[d])

\* ------------------------------------------------------------- Grid (C2)
computeBounds(P, m) ==
  [lo |-> [d \in 1 .. NDim |-> MinOf({P[i][d] : i \in 0 .. (m - 1)})],
   hi |-> [d \in 1 .. NDim |-> MaxOf({P[i][d] : i \in 0 .. (m - 1)})]]

computeGridDimensions(lo, hi, e) ==
  [d \in 1 .. NDim |->
     LET range == fsub(hi[d], lo[d])
         c == fdivCeil(range, e[d])
     IN IF c > 1 THEN c ELSE 1]

\* getGridCoords for the point at position p
getGridCoords(p, lo, dims, e) ==
  [d \in 1 .. NDim |-> Clamp(fdivTrunc(fsub(p[d], lo[d]), e[d]), 0, dims[d] - 1)]

\* row-major flat index: index += coords[d] * stride; stride *= mGridDims[d]
getCellIndex(coords, dims) == coords[1] + coords[2] * dims[1]

getCell(coords, dims) ==
  IF \E d \in 1 .. NDim : coords[d] < 0 \/ coords[d] >= dims[d]
  THEN NullCell
  ELSE getCellIndex(coords, dims)

\* the 3^NDim offsets in the order enumerateNeighborOffsets<0> visits them:
\* dimension 0 outermost, each from -1 to 1
NeighborOffsets ==
  [k \in 1 .. 9 |-> <<((k - 1) \div 3) - 1, ((k - 1) % 3) - 1>>]

\* a search that looks into the point's own cell only
getNeighborCellsOwn(coords, dims) == <<getCell(coords, dims)>>

\* getNeighborCells: the output vector (cleared first), as flat cell indices
getNeighborCells(coords, dims) ==
  LET all == [k \in 1 .. 9 |->
                getCell([d \in 1 .. NDim |-> coords[d] + NeighborOffsets[k][d]], dims)]
  IN SelectSeq(all, LAMBDA c : c # NullCell)

RECURSIVE assignCells(_, _, _, _, _, _)
assignCells(i, m, P, lo, dims, e) ==
  IF i = 0
  THEN [c \in 0 .. (dims[1] * dims[2] - 1) |-> <<>>]
  ELSE LET before == assignCells(i - 1, m, P, lo, dims, e)
           c == getCellIndex(getGridCoords(P[i - 1], lo, dims, e), dims)
       IN [before EXCEPT ![c] = Append(@, i - 1)]

\* ------------------------------------------------ neighbor-list builder (C3)
\* one iteration of the parallel_for of findNeighbors: neighbors[i]
neighborsOf(i) ==
  LET coords == getGridCoords(pts[i], mMinBounds, mGridDims, eps)
      cs == getNeighborCells(coords, mGridDims)
      cand == Concat([k \in 1 .. Len(cs) |-> mCells[cs[k]]])
  IN SelectSeq(cand, LAMBDA idx : idx # i /\ areNeighbors(eps, pts[i], pts[idx]))

\* NeighborList::getSize
getSize(i) == Len(neighbors[i])

\* ----------------------------------------------------------- initial states
NoLocals == [i \in {} |-> 0]

\* the state at the call of cluster(points, m) on a DBSCAN built with eps e
\* and minPts mp, with w threads available and ranges handed out in chunks of g
InitWith(P, m, e, mp, w, g) ==
  /\ pts = P
  /\ n = m
  /\ eps = e
  /\ minPts = mp
  /\ nWorkers = w
  /\ grain = g
  /\ pc = "cluster"
  /\ mMinBounds = [d \in 1 .. NDim |-> 0]
  /\ mMaxBounds = [d \in 1 .. NDim |-> 0]
  /\ mGridDims = [d \in 1 .. NDim |-> 1]
  /\ mCells = <<>>
  /\ neighbors = <<>>
  /\ parent = <<>>
  /\ isCore = <<>>
  /\ labels = <<>>
  /\ nClusters = 0
  /\ nNoise = 0
  /\ todo = {}
  /\ run = NoLocals

Positions == (0 .. MaxX) \X (0 .. MaxY)

EpsChoices == {<<1, 1>>}

Init ==
  \E m \in 0 .. MaxN :
    \E P \in [0 .. (m - 1) -> Positions] :
      \E e \in EpsChoices :
        \E mp \in 0 .. MaxMinPts :
          \E w \in 1 .. MaxWorkers :
            InitWith(P, m, e, mp, w, 1)

\* ------------------------------------------------------- DBSCAN::cluster (C6)
\* cluster without its if (n == 0) return
afterResizeNoReturn(m) == "computeBounds"

\* where cluster goes after labels.resize: if (n == 0) return result
afterResize(m) == IF m = 0 THEN "done" ELSE "computeBounds"

\* labels.resize(n, DB_UNVISITED); n == 0 returns the default result
Cluster ==
  /\ pc = "cluster"
  /\ labels' = [i \in Idx |-> DB_UNVISITED]
  /\ pc' = afterResize(n)
  /\ UNCHANGED <<inputVars, gridVars, neighbors, parent, isCore, resultVars, todo, run>>

ComputeBounds ==
  /\ pc = "computeBounds"
  /\ LET b == computeBounds(pts, n)
     IN /\ mMinBounds' = b.lo
        /\ mMaxBounds' = b.hi
  /\ pc' = "computeGridDimensions"
  /\ UNCHANGED <<inputVars, mGridDims, mCells, neighbors, parent, isCore, labels,
                 resultVars, todo, run>>

ComputeGridDimensions ==
  /\ pc = "computeGridDimensions"
  /\ mGridDims' = computeGridDimensions(mMinBounds, mMaxBounds, eps)
  /\ pc' = "allocateCells"
  /\ UNCHANGED <<inputVars, mMinBounds, mMaxBounds, mCells, neighbors, parent, isCore,
                 labels, resultVars, todo, run>>

AllocateCells ==
  /\ pc = "allocateCells"
  /\ mCells' = [c \in 0 .. (mGridDims[1] * mGridDims[2] - 1) |-> <<>>]
  /\ pc' = "assignCells"
  /\ UNCHANGED <<inputVars, mMinBounds, mMaxBounds, mGridDims, neighbors, parent,
                 isCore, labels, resultVars, todo, run>>

\* assignCells, then the neighbors.neighbors.resize(n) that opens findNeighbors'
\* parallel_for
AssignCells ==
  /\ pc = "assignCells"
  /\ mCells' = assignCells(n, n, pts, mMinBounds, mGridDims, eps)
  /\ neighbors' = [i \in Idx |-> <<>>]
  /\ todo' = Idx
  /\ pc' = "findNeighbors"
  /\ UNCHANGED <<inputVars, mMinBounds, mMaxBounds, mGridDims, parent, isCore, labels,
                 resultVars, run>>

\* one iteration of findNeighbors' parallel_for; it writes its own slot only
FindNeighbors(i) ==
  /\ pc = "findNeighbors"
  /\ i \in todo
  /\ neighbors' = [neighbors EXCEPT ![i] = neighborsOf(i)]
  /\ todo' = todo \ {i}
  /\ UNCHANGED <<inputVars, gridVars, pc, parent, isCore, labels, resultVars, run>>

\* findNeighbors returns; classify allocates parent(n) and isCore(n, false)
Classify ==
  /\ pc = "findNeighbors"
  /\ todo = {}
  /\ parent' = [i \in Idx |-> 0]
  /\ isCore' = [i \in Idx |-> FALSE]
  /\ todo' = ChunkHeads
  /\ pc' = "phaseA"
  /\ UNCHANGED <<inputVars, gridVars, neighbors, labels, resultVars, run>>

\* ------------------------------------------------------------ task locals
Locals(at, who, k, ux, uy, fx, p, gp, snap) ==
  [at |-> at, who |-> who, k |-> k, ux |-> ux, uy |-> uy, fx |-> fx, p |-> p,
   gp |-> gp, snap |-> snap]

Without(f, i) == [j \in (DOMAIN f) \ {i} |-> f[j]]

With(f, i, v) == [j \in (DOMAIN f) \cup {i} |-> IF j = i THEN v ELSE f[j]]

\* a thread is free to take a chunk
Free == Cardinality(DOMAIN run) < nWorkers

\* the locals of an iteration its thread has not begun yet
Begin == Locals("begin", "none", 0, 0, 0, 0, 0, 0, <<>>)

\* iteration i may begin: it opens a chunk a free thread takes, or it is the
\* next one of the for loop over a chunk already taken
CanBegin(i) ==
  \/ i \in todo /\ Free
  \/ i \in DOMAIN run /\ run[i].at = "begin"

\* run after iteration i ended: the for loop of its thread goes on to i + 1
\* unless the chunk ends there
Ended(i) ==
  IF i + 1 < n /\ (i + 1) % grain # 0
  THEN With(Without(run, i), i + 1, Begin)
  ELSE Without(run, i)

\* ------------------------------------------------- classify, Phase 1 (C5)
\* the core test with the point itself counted in its neighbourhood
coreValueCountingSelf(i) == getSize(i) + 1 >= minPts

\* the value Phase 1 assigns to isCore[i]
coreValue(i) == getSize(i) >= minPts

\* parent[i].store(i), then the first half of isCore[i] = ...: the load of the
\* word that holds bit i (std::vector<bool> packs the bits of all points of
\* the model into one word; the assignment is a plain read-modify-write)
InitCoreLoad(i) ==
  /\ pc = "phaseA"
  /\ CanBegin(i)
  /\ parent' = [parent EXCEPT ![i] = i]
  /\ run' = With(run, i, Locals("store", "core", 0, 0, 0, 0, 0, 0, isCore))
  /\ todo' = todo \ {i}
  /\ UNCHANGED <<inputVars, gridVars, pc, neighbors, isCore, labels, resultVars>>

\* the second half: the word, with bit i changed, is stored back
InitCoreStore(i) ==
  /\ pc = "phaseA"
  /\ i \in DOMAIN run
  /\ run[i].at = "store"
  /\ isCore' = [run[i].snap EXCEPT ![i] = coreValue(i)]
  /\ run' = Ended(i)
  /\ UNCHANGED <<inputVars, gridVars, pc, neighbors, parent, labels, resultVars, todo>>

\* a parallel_for that returns once every iteration has been started, without
\* waiting for the running ones
PhaseDoneEarly(from, to) ==
  /\ pc = from
  /\ todo = {}
  /\ pc' = to
  /\ todo' = IF to = "assignment" THEN {} ELSE ChunkHeads
  /\ UNCHANGED <<inputVars, gridVars, neighbors, parent, isCore, labels, resultVars, run>>

\* the parallel_for of a phase has completed
PhaseDone(from, to) ==
  /\ pc = from
  /\ todo = {}
  /\ DOMAIN run = {}
  /\ pc' = to
  /\ todo' = IF to = "assignment" THEN {} ELSE ChunkHeads
  /\ UNCHANGED <<inputVars, gridVars, neighbors, parent, isCore, labels, resultVars, run>>

InitCoreDone == PhaseDone("phaseA", "phaseB")

\* -------------------------------------------------------- find / unite (C4)
\* the locals of iteration i as unite(parent, i, neighbors[i][k]) starts
StartUnite(i, k) ==
  Locals("load_p", "x", k, i, neighbors[i][k], i, 0, 0, <<>>)

\* the loop of Phase 2 after unite returned: the next neighbor, or the end
AfterUnite(i) ==
  IF run[i].k < Len(neighbors[i])
  THEN With(run, i, StartUnite(i, run[i].k + 1))
  ELSE Ended(i)

\* unite that returns after its two finds, without the exchange
AfterFindNoLink(i, r) ==
  LET l == run[i]
  IN CASE l.who = "x" ->
            With(run, i, [l EXCEPT !.at = "load_p", !.who = "y", !.ux = r,
                                   !.fx = l.uy, !.p = 0, !.gp = 0])
       [] l.who = "y" -> AfterUnite(i)
       [] OTHER -> Ended(i)

\* unite without its if (x > y) swap(x, y): the root of y is linked to the
\* root of x whichever is smaller
AfterFindNoSwap(i, r) ==
  LET l == run[i]
  IN CASE l.who = "x" ->
            With(run, i, [l EXCEPT !.at = "load_p", !.who = "y", !.ux = r,
                                   !.fx = l.uy, !.p = 0, !.gp = 0])
       [] l.who = "y" ->
            IF l.ux = r
            THEN AfterUnite(i)
            ELSE With(run, i, [l EXCEPT !.at = "cas", !.who = "x", !.uy = r,
                                        !.fx = 0, !.p = 0, !.gp = 0])
       [] OTHER -> Ended(i)

\* run after find returned r to its caller in iteration i
AfterFind(i, r) ==
  LET l == run[i]
  IN CASE l.who = "x" ->
            \* x = find(parent, x); next y = find(parent, y)
            With(run, i, [l EXCEPT !.at = "load_p", !.who = "y", !.ux = r,
                                   !.fx = l.uy, !.p = 0, !.gp = 0])
       [] l.who = "y" ->
            \* if (x == y) return; if (x > y) swap(x, y)
            IF l.ux = r
            THEN AfterUnite(i)
            ELSE With(run, i, [l EXCEPT !.at = "cas", !.who = "x",
                                        !.ux = IF l.ux < r THEN l.ux ELSE r,
                                        !.uy = IF l.ux < r THEN r ELSE l.ux,
                                        !.fx = 0, !.p = 0, !.gp = 0])
       [] OTHER ->
            \* Phase 3: the iteration ends with the write of labels[i]
            Ended(i)

\* Phase 3 without its else branch: the label stays as resize() left it
labelOfCoreRootOnly(root) == IF isCore[root] THEN root ELSE DB_UNVISITED

\* Phase 3's label for a point whose find returned root
labelOf(root) == IF isCore[root] THEN root ELSE DB_NOISE

LabelsAfterFind(i, r) ==
  IF run[i].who = "root" THEN [labels EXCEPT ![i] = labelOf(r)] ELSE labels

\* find: p = parent[x].load(); if (p == x) return x
FindLoadParent(i) ==
  /\ pc \in {"phaseB", "phaseC"}
  /\ i \in DOMAIN run
  /\ run[i].at = "load_p"
  /\ LET p == parent[run[i].fx]
     IN IF p = run[i].fx
        THEN /\ run' = AfterFind(i, p)
             /\ labels' = LabelsAfterFind(i, p)
        ELSE /\ run' = With(run, i, [run[i] EXCEPT !.at = "load_gp", !.p = p])
             /\ labels' = labels
  /\ UNCHANGED <<inputVars, gridVars, pc, neighbors, parent, isCore, resultVars, todo>>

\* find that returns p without looking at the grandparent
FindReturnsParent(i) ==
  /\ pc \in {"phaseB", "phaseC"}
  /\ i \in DOMAIN run
  /\ run[i].at = "load_gp"
  /\ run' = AfterFind(i, run[i].p)
  /\ labels' = LabelsAfterFind(i, run[i].p)
  /\ UNCHANGED <<inputVars, gridVars, pc, neighbors, parent, isCore, resultVars, todo>>

\* find: gp = parent[p].load(); if (p == gp) return p
FindLoadGrandparent(i) ==
  /\ pc \in {"phaseB", "phaseC"}
  /\ i \in DOMAIN run
  /\ run[i].at = "load_gp"
  /\ LET gp == parent[run[i].p]
     IN IF gp = run[i].p
        THEN /\ run' = AfterFind(i, gp)
             /\ labels' = LabelsAfterFind(i, gp)
        ELSE /\ run' = With(run, i, [run[i] EXCEPT !.at = "halve", !.gp = gp])
             /\ labels' = labels
  /\ UNCHANGED <<inputVars, gridVars, pc, neighbors, parent, isCore, resultVars, todo>>

\* find's loop without its x = p: the next round starts from the same x
afterHalveStay(x, p) == x

\* find: x = p, the node the next round of the loop starts from
afterHalve(x, p) == p

\* find whose exchange stores x in place of gp:
\* parent[x].compare_exchange_weak(p, x), which makes x a root
FindHalveToSelf(i) ==
  /\ pc \in {"phaseB", "phaseC"}
  /\ i \in DOMAIN run
  /\ run[i].at = "halve"
  /\ \E spurious \in BOOLEAN :
       LET l == run[i]
           ok == parent[l.fx] = l.p /\ ~spurious
           p == IF ok THEN l.p ELSE parent[l.fx]
       IN /\ parent' = IF ok THEN [parent EXCEPT ![l.fx] = l.fx] ELSE parent
          /\ run' = With(run, i, [l EXCEPT !.at = "load_p", !.fx = p, !.p = 0, !.gp = 0])
  /\ UNCHANGED <<inputVars, gridVars, pc, neighbors, isCore, labels, resultVars, todo>>

\* find: parent[x].compare_exchange_weak(p, gp); x = p.  The weak exchange may
\* fail although parent[x] = p; a failed exchange loads parent[x] into p
FindHalve(i) ==
  /\ pc \in {"phaseB", "phaseC"}
  /\ i \in DOMAIN run
  /\ run[i].at = "halve"
  /\ \E spurious \in BOOLEAN :
       LET l == run[i]
           ok == parent[l.fx] = l.p /\ ~spurious
           p == IF ok THEN l.p ELSE parent[l.fx]
       IN /\ parent' = IF ok THEN [parent EXCEPT ![l.fx] = l.gp] ELSE parent
          /\ run' = With(run, i, [l EXCEPT !.at = "load_p", !.fx = afterHalve(l.fx, p),
                                           !.p = 0, !.gp = 0])
  /\ UNCHANGED <<inputVars, gridVars, pc, neighbors, isCore, labels, resultVars, todo>>

\* unite with the larger root winning: the exchange is made on parent[x]
UniteCasLargerWins(i) ==
  /\ pc = "phaseB"
  /\ i \in DOMAIN run
  /\ run[i].at = "cas"
  /\ LET l == run[i]
     IN IF parent[l.ux] = l.ux
        THEN /\ parent' = [parent EXCEPT ![l.ux] = l.uy]
             /\ run' = AfterUnite(i)
        ELSE /\ parent' = parent
             /\ run' = With(run, i, [l EXCEPT !.at = "load_p", !.who = "x", !.fx = l.ux])
  /\ UNCHANGED <<inputVars, gridVars, pc, neighbors, isCore, labels, resultVars, todo>>

\* unite: parent[y].compare_exchange_strong(expected = y, x); success returns,
\* failure goes round the loop with the roots found so far
UniteCas(i) ==
  /\ pc = "phaseB"
  /\ i \in DOMAIN run
  /\ run[i].at = "cas"
  /\ LET l == run[i]
     IN IF parent[l.uy] = l.uy
        THEN /\ parent' = [parent EXCEPT ![l.uy] = l.ux]
             /\ run' = AfterUnite(i)
        ELSE /\ parent' = parent
             /\ run' = With(run, i, [l EXCEPT !.at = "load_p", !.who = "x", !.fx = l.ux])
  /\ UNCHANGED <<inputVars, gridVars, pc, neighbors, isCore, labels, resultVars, todo>>

\* ------------------------------------------------- classify, Phase 2 (C5)
\* an iteration of the union loop starts: non-core points are skipped
UnionBegin(i) ==
  /\ pc = "phaseB"
  /\ CanBegin(i)
  /\ todo' = todo \ {i}
  /\ run' = IF isCore[i] /\ Len(neighbors[i]) > 0
            THEN With(run, i, StartUnite(i, 1))
            ELSE Ended(i)
  /\ UNCHANGED <<inputVars, gridVars, pc, neighbors, parent, isCore, labels, resultVars>>

UnionDone == PhaseDone("phaseB", "phaseC")

\* ------------------------------------------------- classify, Phase 3 (C5)
\* an iteration of the label loop starts: root = find(parent, i)
LabelBegin(i) ==
  /\ pc = "phaseC"
  /\ CanBegin(i)
  /\ todo' = todo \ {i}
  /\ run' = With(run, i, Locals("load_p", "root", 0, 0, 0, i, 0, 0, <<>>))
  /\ UNCHANGED <<inputVars, gridVars, pc, neighbors, parent, isCore, labels, resultVars>>

LabelDone == PhaseDone("phaseC", "assignment")

\* ---------------------------------------------- cluster, Step 3 (counts)
maxLabel(L) == MaxOf({L[i] : i \in DOMAIN L})

countOf(L, v) == Cardinality({i \in DOMAIN L : L[i] = v})

\* the cluster count without the + 1
clusterCountMaxLabel(L) == maxLabel(L)

\* result.nClusters = max_label + 1
clusterCount(L) == maxLabel(L) + 1

Assignment ==
  /\ pc = "assignment"
  /\ nClusters' = clusterCount(labels)
  /\ nNoise' = countOf(labels, DB_NOISE)
  /\ pc' = "done"
  /\ UNCHANGED <<inputVars, gridVars, neighbors, parent, isCore, labels, todo, run>>

\* ------------------------------------------------------------ specification
Next ==
  \/ Cluster
  \/ ComputeBounds
  \/ ComputeGridDimensions
  \/ AllocateCells
  \/ AssignCells
  \/ \E i \in Idx : FindNeighbors(i)
  \/ Classify
  \/ \E i \in Idx : InitCoreLoad(i)
  \/ \E i \in Idx : InitCoreStore(i)
  \/ InitCoreDone
  \/ \E i \in Idx : UnionBegin(i)
  \/ \E i \in Idx : FindLoadParent(i)
  \/ \E i \in Idx : FindLoadGrandparent(i)
  \/ \E i \in Idx : FindHalve(i)
  \/ \E i \in Idx : UniteCas(i)
  \/ UnionDone
  \/ \E i \in Idx : LabelBegin(i)
  \/ LabelDone
  \/ Assignment

Spec == Init /\ [][Next]_vars

\* every input of the general specification, run on one thread (iterations in
\* any order, one at a time)
InitSeq ==
  \E m \in 0 .. MaxN :
    \E P \in [0 .. (m - 1) -> Positions] :
      \E e \in EpsChoices :
        \E mp \in 0 .. MaxMinPts :
          InitWith(P, m, e, mp, 1, 1)

SpecSeq == InitSeq /\ [][Next]_vars

\* two cores that are not neighbors, each with a private neighbor, and two
\* border points in reach of both cores (eps = (1, 1), minPts = 3)
BridgePoints ==
  [i \in 0 .. 5 |->
     CASE i = 0 -> <<1, 1>>
       [] i = 1 -> <<3, 1>>
       [] i = 2 -> <<2, 0>>
       [] i = 3 -> <<2, 2>>
       [] i = 4 -> <<0, 1>>
       [] OTHER -> <<4, 1>>]

InitBridge == InitWith(BridgePoints, 6, <<1, 1>>, 3, 1, 1)

SpecBridge == InitBridge /\ [][Next]_vars

\* scenario S3 in units of 0.5: five points at (0,0), five at (1.0,0), one at
\* (0.5,0); eps = (0.5,0.5), minPts = 3; one thread runs the whole range
S3Points ==
  [i \in 0 .. 10 |-> IF i < 5 THEN <<0, 0>> ELSE IF i < 10 THEN <<2, 0>> ELSE <<1, 0>>]

InitS3 == InitWith(S3Points, 11, <<1, 1>>, 3, 1, 11)

SpecS3 == InitS3 /\ [][Next]_vars

\* ------------------------------------------------- what the claims refer to
Done == pc = "done"

ValidParams == minPts >= 1 /\ \A d \in 1 .. NDim : eps[d] > 0

\* the box neighborhood of the points themselves (no grid): |p_d - q_d| <= eps_d
BoxNbr(P, e, i, j) ==
  i # j /\ \A d \in 1 .. NDim : P[i][d] - P[j][d] <= e[d] /\ P[j][d] - P[i][d] <= e[d]

Nbhd(P, e, i) == {j \in DOMAIN P : BoxNbr(P, e, i, j)}

CorePt(P, e, mp, i) == Cardinality(Nbhd(P, e, i)) >= mp

\* the points reached from S in at most k steps along the pairs of E, in
\* either direction
RECURSIVE Reach(_, _, _)
Reach(S, E, k) ==
  IF k = 0 THEN S
  ELSE LET T == S \cup {j \in UNION {{e[1], e[2]} : e \in E} :
                          \E i \in S : <<i, j>> \in E \/ <<j, i>> \in E}
       IN IF T = S THEN S ELSE Reach(T, E, k - 1)

Cores(P, e, mp) == {i \in DOMAIN P : CorePt(P, e, mp, i)}

\* DBSCAN's clusters of core points: chains of core points, consecutive ones neighbors
CoreEdges(P, e, mp) ==
  LET C == Cores(P, e, mp)
  IN {ij \in C \X C : BoxNbr(P, e, ij[1], ij[2])}

SameCluster(i, j) == j \in Reach({i}, CoreEdges(pts, eps, minPts), n)

\* the edges Phase 2 hands to unite when every core flag is recorded: a core
\* point with each of its neighbors
UniteEdges(P, e, mp) ==
  LET C == Cores(P, e, mp)
  IN {ij \in C \X (DOMAIN P) : BoxNbr(P, e, ij[1], ij[2])}

\* the labels of a run without interference: the smallest index of the
\* component is its root, and the root's core flag decides the label
ReferenceLabels(P, e, mp) ==
  LET C == Cores(P, e, mp)
      E == UniteEdges(P, e, mp)
  IN [i \in DOMAIN P |->
        LET root == MinOf(Reach({i}, E, Cardinality(DOMAIN P)))
        IN IF root \in C THEN root ELSE DB_NOISE]

\* i and j are in one block of the partition L induces (noise points are singletons)
SamePart(L, i, j) == i = j \/ (L[i] = L[j] /\ L[i] # DB_NOISE)

\* the permutations of the index set S
Perms(S) == {f \in [S -> S] : \A a \in S : \E b \in S : f[b] = a}

\* ------------------------------------------------------------------ claims

\* C1: when cluster() has returned, two core points carry the same label
\* exactly when a chain of core points, consecutive ones box-neighbors, joins them.
C1_CoreLabelsMatchClusters ==
  (Done /\ ValidParams) =>
    \A i \in Idx : \A j \in Idx :
      (CorePt(pts, eps, minPts, i) /\ CorePt(pts, eps, minPts, j)) =>
        ((labels[i] = labels[j]) <=> SameCluster(i, j))

\* C2: when cluster() has returned, every non-core point with a core neighbor
\* has a non-noise label, the label of one of its core neighbors.
C2_BorderJoinsCoreNeighbor ==
  (Done /\ ValidParams) =>
    \A j \in Idx :
      (/\ ~CorePt(pts, eps, minPts, j)
       /\ \E i \in Nbhd(pts, eps, j) : CorePt(pts, eps, minPts, i)) =>
        /\ labels[j] # DB_NOISE
        /\ \E i \in Nbhd(pts, eps, j) :
             CorePt(pts, eps, minPts, i) /\ labels[i] = labels[j]

\* C3: when cluster() has returned, labels[i] is DB_NOISE exactly when i is not
\* core and has no core point in its neighborhood (so core points are never noise).
C3_NoiseIffNoCoreInReach ==
  (Done /\ ValidParams) =>
    \A i \in Idx :
      (labels[i] = DB_NOISE) <=>
        (/\ ~CorePt(pts, eps, minPts, i)
         /\ ~\E j \in Nbhd(pts, eps, i) : CorePt(pts, eps, minPts, j))

\* C4: the label vector cluster() returns is the same in every interleaving of
\* the threads and for every number of threads: it is the vector of the run
\* without interference.
C4_LabelsSameInEveryInterleaving ==
  (Done /\ ValidParams /\ n > 0) => labels = ReferenceLabels(pts, eps, minPts)

\* the first index that carries the label of i
FirstWith(L, i) == MinOf({j \in DOMAIN L : L[j] = L[i]})

\* C5: the returned cluster IDs are dense in order of first appearance: a
\* non-noise label is the number of distinct non-noise labels that appear
\* before its first occurrence, and nClusters is the number of distinct
\* non-noise labels.
C5_DenseCanonicalLabels ==
  (Done /\ ValidParams) =>
    /\ \A i \in Idx :
         labels[i] >= 0 =>
           labels[i] = Cardinality({labels[j] : j \in {k \in Idx : k < FirstWith(labels, i)
                                                                   /\ labels[k] >= 0}})
    /\ nClusters = Cardinality({labels[i] : i \in {k \in Idx : labels[k] >= 0}})

\* C6: when cluster() has returned, every label is DB_NOISE or lies in
\* [0, nClusters); DB_UNVISITED, DB_BORDER and DB_CORE do not appear.
C6_LabelsNoiseOrInRange ==
  Done =>
    /\ DOMAIN labels = Idx
    /\ \A i \in Idx :
         /\ labels[i] = DB_NOISE \/ (0 <= labels[i] /\ labels[i] < nClusters)
         /\ labels[i] \notin {DB_UNVISITED, DB_BORDER, DB_CORE}

\* C6 happens: a returned result with a noise point and a clustered point
C6_Witness ==
  /\ Done
  /\ \E i \in Idx : labels[i] = DB_NOISE
  /\ \E i \in Idx : labels[i] >= 0

\* C7: when cluster() has returned, nNoise is the number of labels equal to
\* DB_NOISE, and nClusters is 0 exactly when no label is >= 0.
C7_CountsMatchLabels ==
  Done =>
    /\ nNoise = Cardinality({i \in Idx : labels[i] = DB_NOISE})
    /\ (nClusters = 0) <=> (\A i \in Idx : ~(labels[i] >= 0))

\* C7 happens: a returned result with at least one noise point and a cluster
\* whose label is 0
C7_Witness ==
  /\ Done
  /\ nNoise >= 1
  /\ \E i \in Idx : labels[i] = 0

\* C8: the partition cluster() returns does not depend on the order of the
\* points: for every permutation f of the indices, the run on the permuted
\* input puts positions a and b in one block exactly when this run puts
\* f[a] and f[b] in one block.
C8_PartitionPermutationInvariant ==
  (Done /\ ValidParams /\ n > 0) =>
    \A f \in Perms(Idx) :
      LET permuted == ReferenceLabels([a \in Idx |-> pts[f[a]]], eps, minPts)
      IN \A a \in Idx : \A b \in Idx :
           SamePart(permuted, a, b) <=> SamePart(labels, f[a], f[b])

\* the positions of cluster() from grid construction to the counts
PipelinePositions ==
  {"computeBounds", "computeGridDimensions", "allocateCells", "assignCells",
   "findNeighbors", "phaseA", "phaseB", "phaseC", "assignment"}

\* C9: cluster() called with an invalid parameter (eps_d <= 0 or minPts <= 0)
\* does not proceed to grid construction or classification and returns no labels.
C9_InvalidParamsRejected ==
  ~ValidParams =>
    /\ pc \notin PipelinePositions
    /\ Done => labels = <<>>

\* C10 as stated: on S3 cluster() returns two clusters, and the point at
\* (0.5,0) carries the label of the first clump and not of the second.
C10_S3TwoClusters ==
  (Done /\ pts = S3Points) =>
    /\ nClusters = 2
    /\ labels[10] = labels[0]
    /\ labels[10] # labels[5]

\* C10 amended: on S3 the point at (0.5,0) has all ten other points in its
\* neighborhood, so it is a core point that joins the two clumps: all
\* non-noise labels are equal, nClusters is not 2, and when every core
\* flag is recorded all eleven labels are 0, nClusters = 1 and nNoise = 0.
C10_S3OneCluster ==
  (Done /\ pts = S3Points) =>
    /\ getSize(10) = 10
    /\ \A i \in Idx : \A j \in Idx :
         (labels[i] >= 0 /\ labels[j] >= 0) => labels[i] = labels[j]
    /\ nClusters # 2
    /\ (\A i \in Idx : isCore[i]) =>
         /\ \A i \in Idx : labels[i] = 0
         /\ nClusters = 1
         /\ nNoise = 0

\* C10 happens: S3 has returned with the point at (0.5,0) and both clumps
\* under label 0
C10_Witness ==
  /\ Done
  /\ pts = S3Points
  /\ labels[10] = 0
  /\ labels[0] = 0
  /\ labels[5] = 0
  /\ nClusters = 1

\* ----------------------------------------------------------- scenario S2
\* scenario S2 in units of 0.1: (0,0),(0.4,0),(0.8,0),(1.2,0),(1.6,0) with
\* eps = (0.5,0.5), on two threads.  No difference or quotient of the scenario
\* is near a threshold, so float rounding does not matter.  The scenario's
\* minPts is 3; the chain is also run with minPts = 2, where its interior
\* points are core.
S2Points == [i \in 0 .. 4 |-> <<4 * i, 0>>]

InitS2 == \E mp \in {2, 3} : InitWith(S2Points, 5, <<5, 5>>, mp, 2, 1)

SpecS2 == InitS2 /\ [][Next]_vars

\* C11 as stated: scenario S2 returns one cluster of all five points, every
\* label 0, nClusters = 1 and nNoise = 0
C11_S2OneCluster ==
  (Done /\ pts = S2Points /\ minPts = 3) =>
    /\ \A i \in Idx : labels[i] = 0
    /\ nClusters = 1
    /\ nNoise = 0

\* C11 amended: findNeighbors leaves the point itself out, so an interior
\* point of the chain has 2 neighbours < minPts = 3: no point is core, every
\* label is DB_NOISE, nClusters = 0 and nNoise = 5, in every interleaving
C11_S2AllNoise ==
  (Done /\ pts = S2Points /\ minPts = 3) =>
    /\ \A i \in Idx : ~isCore[i]
    /\ \A i \in Idx : labels[i] = DB_NOISE
    /\ nClusters = 0
    /\ nNoise = 5

\* C11 happens: S2 has returned, with the interior points holding exactly
\* their two chain neighbours
C11_Witness ==
  /\ Done
  /\ pts = S2Points
  /\ eps = <<5, 5>>
  /\ minPts = 3
  /\ \A i \in 1 .. 3 : getSize(i) = 2
  /\ neighbors[2] = <<1, 3>>

\* ------------------------------------------------------ coincident points
\* all n points of the input lie at one location
Coincident == \A i, j \in Idx : pts[i] = pts[j]

\* C12 as stated: when all n points coincide and n >= minPts, cluster()
\* returns one cluster that holds every point: nClusters = 1 and nNoise = 0
C12_CoincidentOneCluster ==
  (Done /\ ValidParams /\ n >= 1 /\ Coincident /\ n >= minPts) =>
    /\ nClusters = 1
    /\ nNoise = 0
    /\ \A i, j \in Idx : labels[i] = labels[j] /\ labels[i] # DB_NOISE

\* ------------------------------------------------------------ empty input
\* C13: cluster(points, 0) goes from its entry straight to its return: no
\* grid cell, neighbor list or parent array is ever built, and it returns
\* empty labels with nClusters = 0 and nNoise = 0
C13_EmptyShortCircuits ==
  n = 0 =>
    /\ pc \in {"cluster", "done"}
    /\ mCells = <<>> /\ neighbors = <<>> /\ parent = <<>> /\ isCore = <<>>
    /\ Done => (labels = <<>> /\ nClusters = 0 /\ nNoise = 0)

\* C13 happens: a call with n = 0 has returned
C13_Witness == Done /\ n = 0 /\ Len(labels) = 0

\* ------------------------------------------------------------- union-find
\* bounds of the union-find specification: UFPoints points, 2..MaxUFWorkers
\* threads
UFPoints == 4

MaxUFWorkers == 3

\* inputs that exercise find and unite: a chain (consecutive points are
\* neighbors), a clump (all points coincide) and two separate pairs
UFChain == [i \in 0 .. (UFPoints - 1) |-> <<i, 0>>]

UFClump == [i \in 0 .. (UFPoints - 1) |-> <<0, 0>>]

UFPairs == [i \in 0 .. (UFPoints - 1) |-> <<3 * (i \div 2), 0>>]

InitUF ==
  \E P \in {UFChain, UFClump, UFPairs} :
    \E w \in 2 .. MaxUFWorkers :
      InitWith(P, UFPoints, <<1, 1>>, 1, w, 1)

SpecUF == InitUF /\ [][Next]_vars

\* find(parent, x) run on its own: the value the loop returns.  The halving
\* exchange rewrites parent[x] only for the x the loop has just left, so it
\* does not change what this call returns.  k bounds the number of rounds;
\* -1 stands for a loop that has not returned after k rounds.
RECURSIVE findLoop(_, _, _)
findLoop(par, x, k) ==
  IF k = 0 THEN -1
  ELSE LET p == par[x]
       IN IF p = x THEN x
          ELSE LET gp == par[p]
               IN IF p = gp THEN p ELSE findLoop(par, p, k - 1)

find(par, x) == findLoop(par, x, Cardinality(DOMAIN par))

\* the (x, y) pairs Phase 2 passes to unite: a point whose core flag is set,
\* with each entry of its neighbor list
UniteCalls ==
  {xy \in Idx \X Idx :
     isCore[xy[1]] /\ \E k \in 1 .. Len(neighbors[xy[1]]) : neighbors[xy[1]][k] = xy[2]}

\* the connected component of a in the graph of the unite calls
Component(a) == Reach({a}, UniteCalls, n)

\* every unite call of Phase 2 has returned
UnitesReturned == pc \in {"phaseC", "assignment", "done"}

\* C14 (U-3): once all unite calls have returned, find(a) = find(b) exactly
\* when a and b are in one connected component of the graph of the unite calls
C14_SameRootIffConnected ==
  UnitesReturned =>
    \A a, b \in Idx : (find(parent, a) = find(parent, b)) <=> (b \in Component(a))

\* C14 happens: all unite calls have returned on three threads, two distinct
\* points share a root they reach along a path of two pointers, and two points
\* have different roots
C14_Witness ==
  /\ UnitesReturned
  /\ nWorkers = 3
  /\ \E a \in Idx : parent[a] # a /\ parent[parent[a]] # parent[a]
  /\ \E c, d \in Idx : find(parent, c) # find(parent, d)

\* Phase 1 has completed: every parent[i] has been initialised
Initialised == pc \in {"phaseB", "phaseC", "assignment", "done"}

\* C15 (U-1): in every state after the initialisation of Phase 1, whatever
\* find and unite steps have run, parent[i] <= i for every index i
C15_ParentNotAbove ==
  Initialised => \A i \in Idx : parent[i] \in 0 .. i

\* C15 happens: during the unions a find is about to attempt its halving
\* exchange while another iteration retries a failed exchange of unite, and
\* some node already points below itself
C15_Witness ==
  /\ pc = "phaseB"
  /\ \E i \in DOMAIN run : run[i].at = "halve"
  /\ \E i \in DOMAIN run : run[i].at = "cas" /\ parent[run[i].uy] # run[i].uy
  /\ \E j \in Idx : parent[j] < j

\* the node k parent pointers above x
RECURSIVE climb(_, _, _)
climb(par, x, k) == IF k = 0 THEN x ELSE climb(par, par[x], k - 1)

\* C16 (U-2 / I-U1): in every state of the concurrent find / unite execution
\* the parent pointers form a forest: from any node, at most n - 1 pointers
\* lead to a root (parent[r] = r), so no cycle is longer than 1
C16_ParentIsForest ==
  Initialised =>
    \A i \in Idx :
      LET r == climb(parent, i, n - 1)
      IN r \in Idx /\ parent[r] = r

\* C16 happens: during the unions on three threads, a chain of three pointers
\* leads to a root
C16_Witness ==
  /\ pc = "phaseB"
  /\ nWorkers = 3
  /\ Cardinality(DOMAIN run) = 3
  /\ \E i \in Idx :
       /\ parent[i] # i
       /\ parent[parent[i]] # parent[i]
       /\ parent[parent[parent[i]]] # parent[parent[i]]

\* ---------------------------------------------------------------- progress
\* the union-find specification under a scheduler that never stops while a
\* step is possible
SpecUFFair == InitUF /\ [][Next]_vars /\ WF_vars(Next)

\* some iteration is inside a unite call of Phase 2 or a find call of Phase 3
Calling ==
  /\ pc \in {"phaseB", "phaseC"}
  /\ \E i \in DOMAIN run : run[i].at \in {"load_p", "load_gp", "halve", "cas"}

\* C17: under a fair scheduler every unite call and every find call returns:
\* neither the retry loop of unite nor the halving loop of find runs forever,
\* so from some point on no call is open and cluster() has returned
C17_EveryCallReturns == <>[](Done /\ ~Calling)

\* C17 happens: a unite call is back at its first find after its exchange
\* failed, while another call is inside find's halving loop
C17_Witness ==
  /\ pc = "phaseB"
  /\ \E i \in DOMAIN run :
       /\ run[i].at = "load_p" /\ run[i].who = "x"
       /\ run[i].ux # i /\ parent[run[i].uy] # run[i].uy
  /\ \E j \in DOMAIN run : run[j].at = "halve"

\* ------------------------------------------------------------ min-root
\* C18: once all unite calls of Phase 2 have returned, in every interleaving,
\* find(i) is the smallest index of i's connected component in the graph of
\* the unite calls; the finds of Phase 3, which run concurrently with each
\* other's halving, return that root too (the label is decided by it)
C18_RootIsComponentMin ==
  /\ UnitesReturned => \A i \in Idx : find(parent, i) = MinOf(Component(i))
  /\ Done /\ n > 0 => \A i \in Idx : labels[i] = labelOf(MinOf(Component(i)))

\* C18 happens: the chain has been classified on three threads, every point
\* is in the component of point 0 and carries the label 0
C18_Witness ==
  /\ Done
  /\ pts = UFChain
  /\ nWorkers = 3
  /\ Component(UFPoints - 1) = Idx
  /\ \A i \in Idx : labels[i] = 0

\* ------------------------------------------------------- the frame of find
\* a step of a find call (called from unite or from Phase 3)
FindStep ==
  \E i \in Idx : FindLoadParent(i) \/ FindLoadGrandparent(i) \/ FindHalve(i)

Roots(par) == {r \in DOMAIN par : par[r] = r}

\* the nodes above x: its parent, its grandparent, ..., its root
Ancestors(par, x) == {climb(par, x, k) : k \in 1 .. Cardinality(DOMAIN par)}

\* C19 as stated: a step of find never changes parent[r] of a root r, rewrites
\* parent[x] of a non-root x only to a node that is an ancestor of x at that
\* moment, and leaves the set of roots and the root reached from every node
\* unchanged
C19_FindRewritesToAncestor ==
  [][FindStep =>
       /\ \A r \in Roots(parent) : parent'[r] = r
       /\ \A x \in Idx :
            parent'[x] # parent[x] =>
              (parent[x] # x /\ parent'[x] \in Ancestors(parent, x))
       /\ Roots(parent') = Roots(parent)
       /\ \A j \in Idx : find(parent', j) = find(parent, j)]_vars


\* C19 amended: a step of find never changes parent[r] of a root r and
\* rewrites parent[x] of a non-root x only to a smaller index of x's own tree
\* (the grandparent it read, which a concurrent halving may by then have taken
\* off x's path), so the set of roots and the root reached from every node
\* are unchanged, also while unite calls run
C19_FindKeepsPartition ==
  [][FindStep =>
       /\ \A r \in Roots(parent) : parent'[r] = r
       /\ \A x \in Idx :
            parent'[x] # parent[x] =>
              /\ parent[x] # x
              /\ parent'[x] < parent[x]
              /\ find(parent, parent'[x]) = find(parent, x)
       /\ Roots(parent') = Roots(parent)
       /\ \A j \in Idx : find(parent', j) = find(parent, j)]_vars

\* C19 happens: during the unions a find is about to exchange parent[x], which
\* still holds the p it read, for a grandparent that is no longer above x
C19_Witness ==
  /\ pc = "phaseB"
  /\ \E i \in DOMAIN run :
       /\ run[i].at = "halve"
       /\ parent[run[i].fx] = run[i].p
       /\ run[i].gp \notin Ancestors(parent, run[i].fx)

\* ---------------------------------------------------------- phase ordering
Phases == {"phaseA", "phaseB", "phaseC"}

\* every iteration that is running belongs to the parallel_for of the current
\* phase: Phase 1's store, Phase 2's unite, Phase 3's find
PhaseOwnsTasks ==
  \A i \in DOMAIN run :
    \/ run[i].at = "begin" /\ pc \in Phases
    \/ run[i].at = "store" /\ pc = "phaseA"
    \/ run[i].who \in {"x", "y"} /\ pc = "phaseB"
    \/ run[i].who = "root" /\ pc = "phaseC"

\* C20: the three phases are separated by barriers.  A phase is left only
\* when none of its iterations is unstarted or running; Phase 2 is entered
\* with every parent[i] = i; isCore is written only before the first barrier,
\* unite's exchange runs only in Phase 2, and labels are written only in
\* Phase 3 (after the resize at the entry of cluster)
C20_PhasesSeparatedByBarriers ==
  [][/\ PhaseOwnsTasks /\ PhaseOwnsTasks'
     /\ (pc' # pc /\ pc \in Phases) => (todo = {} /\ DOMAIN run = {})
     /\ (pc = "phaseA" /\ pc' = "phaseB") => \A i \in Idx : parent[i] = i
     /\ isCore' # isCore => pc \in {"findNeighbors", "phaseA"}
     /\ (\E i \in Idx : UniteCas(i)) => pc = "phaseB"
     /\ (parent' # parent /\ pc = "phaseC") => FindStep
     /\ labels' # labels => pc \in {"cluster", "phaseC"}]_vars

\* C20 happens: inside Phase 2 the last iteration has completed a unite
\* before iteration 0 was started (iterations run in any order), and Phase 3
\* has not begun
C20_Witness ==
  /\ pc = "phaseB"
  /\ n >= 2
  /\ 0 \in todo
  /\ (n - 1) \notin todo
  /\ (n - 1) \notin DOMAIN run
  /\ parent[n - 1] # n - 1
  /\ \A i \in Idx : labels[i] = DB_UNVISITED

\* ---------------------------------------------------------------- core mask
\* C21: once Phase 1 has completed, in every interleaving, isCore[i] holds
\* |N(i)| >= minPts for every i (each slot written by one worker, without
\* interference from the workers that write other slots)
C21_CoreMaskExact ==
  (Initialised /\ ValidParams) => \A i \in Idx : isCore[i] = (getSize(i) >= minPts)

\* -------------------------------------------------------------------- grid
\* bounds of the grid specification: coordinates from 0..MaxGX and 0..MaxGY,
\* eps from 1..MaxEps in each dimension
MaxGX == 3

MaxGY == 2

MaxEps == 2

GridPositions == (0 .. MaxGX) \X (0 .. MaxGY)

GridEps == (1 .. MaxEps) \X (1 .. MaxEps)

\* 1.1f, the float nearest to 1.1, in units of 2^-27
RoundingEps == <<147639504, 147639504>>

\* the floats nearest to 0.1, 1.2 and 2.3, and 4.0, on the line y = 0: the
\* second and the third point are exactly 1.1f apart, on either side of the
\* boundary between the second and the third cell
RoundingPoints ==
  [i \in 0 .. 3 |->
     <<IF i = 0 THEN 13421773
       ELSE IF i = 1 THEN 161061264
       ELSE IF i = 2 THEN 308700768
       ELSE 536870912, 0>>]

\* every input of at most MaxN points on the wider lattice, for every eps,
\* and the input whose differences and quotients are not exact floats, each
\* run on one thread
InitGrid ==
  \/ \E m \in 0 .. MaxN :
       \E P \in [0 .. (m - 1) -> GridPositions] :
         \E e \in GridEps :
           InitWith(P, m, e, 1, 1, 1)
  \/ InitWith(RoundingPoints, 4, RoundingEps, 1, 1, 1)

SpecGrid == InitGrid /\ [][Next]_vars

\* findNeighbors has returned
NeighborsBuilt == pc \in {"phaseA", "phaseB", "phaseC", "assignment", "done"}

\* C22: after findNeighbors the list of every point i holds exactly the
\* indices j # i within eps of i in every dimension, each once: the search
\* through the grid equals the all-pairs search, so the lists are symmetric
C22_NeighborListsExact ==
  NeighborsBuilt =>
    \A i \in Idx :
      /\ {neighbors[i][k] : k \in 1 .. Len(neighbors[i])} = Nbhd(pts, eps, i)
      /\ Len(neighbors[i]) = Cardinality(Nbhd(pts, eps, i))
      /\ \A k \in 1 .. Len(neighbors[i]) :
           /\ neighbors[i][k] # i
           /\ \E l \in 1 .. Len(neighbors[neighbors[i][k]]) :
                neighbors[neighbors[i][k]][l] = i

\* the grid has its bounds and its dimensions
GridBuilt == pc \notin {"cluster", "computeBounds", "computeGridDimensions"}

\* the cell coordinates getGridCoords gives point i
cellOf(i) == getGridCoords(pts[i], mMinBounds, mGridDims, eps)

\* C23 (I-G3): in the grid built for the input, two points within eps of each
\* other in every dimension have cell coordinates that differ by at most 1 in
\* every dimension
C23_NeighborsInAdjacentCells ==
  GridBuilt =>
    \A i, j \in Idx :
      BoxNbr(pts, eps, i, j) =>
        \A d \in 1 .. NDim : Abs(cellOf(i)[d] - cellOf(j)[d]) <= 1

\* the coordinates of the cells of a grid of dimensions dims
InRange(dims) == (0 .. (dims[1] - 1)) \X (0 .. (dims[2] - 1))

\* the cells of the grid at offset -1, 0 or 1 of coords in every dimension
Around(coords, dims) ==
  {c \in InRange(dims) : \A d \in 1 .. NDim : Abs(c[d] - coords[d]) <= 1}

\* the coordinates of the grid and those one step outside of it
Fringe(dims) == ((-1) .. dims[1]) \X ((-1) .. dims[2])

\* C24: in the grid built for the input, the flat index is distinct for
\* distinct cells, getCell is absent exactly for the coordinates outside the
\* grid, and getNeighborCells leaves, for the coordinates of every cell, the
\* cells of the grid at offsets -1..1 of it, each once and nothing else
C24_NeighborCellsExact ==
  GridBuilt =>
    /\ \A c1, c2 \in InRange(mGridDims) :
         c1 # c2 => getCellIndex(c1, mGridDims) # getCellIndex(c2, mGridDims)
    /\ \A c \in Fringe(mGridDims) :
         (getCell(c, mGridDims) = NullCell) <=> (c \notin InRange(mGridDims))
    /\ \A c \in InRange(mGridDims) :
         LET out == getNeighborCells(c, mGridDims)
         IN /\ {out[k] : k \in 1 .. Len(out)} =
                 {getCellIndex(a, mGridDims) : a \in Around(c, mGridDims)}
            /\ Len(out) = Cardinality(Around(c, mGridDims))

\* C24 happens: findNeighbors has searched a grid of 3 by 2 cells from a point
\* in the corner cell, five of whose nine offsets fall outside the grid
C24_Witness ==
  /\ NeighborsBuilt
  /\ mGridDims = <<3, 2>>
  /\ \E i \in Idx :
       /\ cellOf(i) = <<0, 0>>
       /\ getNeighborCells(cellOf(i), mGridDims) = <<0, 3, 1, 4>>

\* ---------------------------------------------------------- BFS classifier
\* for (auto neighbor : neighbors[current]) of expandCluster, on the record
\* st of labels, visited and seeds
RECURSIVE visitNeighbors(_, _, _)
visitNeighbors(list, idx, st) ==
  IF list = <<>> THEN st
  ELSE LET neighbor == Head(list)
           st1 == IF ~st.visited[neighbor]
                  THEN [labels |-> [st.labels EXCEPT ![neighbor] = idx],
                        visited |-> [st.visited EXCEPT ![neighbor] = TRUE],
                        seeds |-> Append(st.seeds, neighbor)]
                  ELSE IF st.labels[neighbor] = DB_NOISE
                  THEN [st EXCEPT !.labels[neighbor] = idx]
                  ELSE st
       IN visitNeighbors(Tail(list), idx, st1)

\* while (!seeds.empty()) of expandCluster
RECURSIVE expandLoop(_, _, _, _)
expandLoop(idx, nbs, mp, st) ==
  IF st.seeds = <<>> THEN st
  ELSE LET current == Head(st.seeds)
           popped == [st EXCEPT !.seeds = Tail(st.seeds)]
       IN expandLoop(idx, nbs, mp,
                     IF Len(nbs[current]) >= mp
                     THEN visitNeighbors(nbs[current], idx, popped)
                     ELSE popped)

expandCluster(i, idx, nbs, mp, st) ==
  expandLoop(idx, nbs, mp,
             [labels |-> [st.labels EXCEPT ![i] = idx],
              visited |-> [st.visited EXCEPT ![i] = TRUE],
              seeds |-> <<i>>])

\* Phase 2 of the BFS classify from index i on: a new cluster for every core
\* point not visited yet
RECURSIVE expandFrom(_, _, _, _, _, _, _)
expandFrom(i, m, nextClsIdx, core, nbs, mp, st) ==
  IF i = m THEN st
  ELSE IF st.visited[i] \/ ~core[i]
  THEN expandFrom(i + 1, m, nextClsIdx, core, nbs, mp, st)
  ELSE expandFrom(i + 1, m, nextClsIdx + 1, core, nbs, mp,
                  expandCluster(i, nextClsIdx, nbs, mp, st))

\* the masks Phase 1 of the BFS classify can leave: on one thread the exact
\* one; on more threads isCore[i] = true is an unsynchronised update of the
\* word all bits share, which can write back a stale false for other bits,
\* while the bit of the last store stays set
coreMasks(m, nbs, mp, w) ==
  LET exact == [i \in 0 .. (m - 1) |-> Len(nbs[i]) >= mp]
  IN IF w = 1 THEN {exact}
     ELSE {c \in [0 .. (m - 1) -> BOOLEAN] :
             /\ \A i \in 0 .. (m - 1) : c[i] => exact[i]
             /\ (\E i \in 0 .. (m - 1) : exact[i]) => \E i \in 0 .. (m - 1) : c[i]}

\* the labels the BFS classify leaves for the mask core: Phase 2, then Phase 3
\* marks the points not visited as noise
classifyBFS(m, nbs, mp, core) ==
  LET st0 == [labels |-> [i \in 0 .. (m - 1) |-> DB_UNVISITED],
              visited |-> [i \in 0 .. (m - 1) |-> FALSE],
              seeds |-> <<>>]
      st == expandFrom(0, m, 0, core, nbs, mp, st0)
  IN [i \in 0 .. (m - 1) |-> IF ~st.visited[i] THEN DB_NOISE ELSE st.labels[i]]

\* the labelings L1 and L2 have the same noise points and the same clusters
SamePartition(L1, L2) ==
  \A i, j \in DOMAIN L1 :
    /\ (L1[i] = DB_NOISE) <=> (L2[i] = DB_NOISE)
    /\ SamePart(L1, i, j) <=> SamePart(L2, i, j)

\* C25: when cluster() has returned, the labels of the union-find classifier
\* and the labels the BFS classifier computes from the same neighbor lists
\* and minPts give the same noise points and the same clusters
C25_ClassifiersAgree ==
  (Done /\ ValidParams) =>
    \A core \in coreMasks(n, neighbors, minPts, nWorkers) :
      SamePartition(labels, classifyBFS(n, neighbors, minPts, core))

====
